---- MODULE Spec2Model ----
(***************************************************************************)
(* Model of update-versions.py: get_latest_tag (tag resolver: paginated    *)
(* registry query, version parsing, sorting) and update_config_files       *)
(* (directory walk, YAML load, conditional rewrite, per-file error         *)
(* isolation).                                                             *)
(*                                                                         *)
(* Strings are sequences of one-character strings, so that parsing,        *)
(* ordering and YAML scalar resolution are computed on the characters.     *)
(* The characters handled are the ASCII letters and digits and             *)
(*   ! + - . / _ ~                                                         *)
(* Numbers read from a text are kept as numerals (digit strings without    *)
(* leading zeros), so that no number read from a tag or a file is cut to   *)
(* a machine word.                                                         *)
(***************************************************************************)
EXTENDS Integers, Sequences, FiniteSets, TLC

\* ------------------------------------------------------------- bounds

\* Longest list of tag names on a registry page whose names are drawn freely.
MaxTags == 3

\* Most pages a repository has in the registry.
MaxPages == 2

\* Most files the walked directory tree holds.
MaxFiles == 2

\* ------------------------------------------------------------ strings

Digits == {"0", "1", "2", "3", "4", "5", "6", "7", "8", "9"}
DigitChars == <<"0", "1", "2", "3", "4", "5", "6", "7", "8", "9">>
UpperCase == <<"A", "B", "C", "D", "E", "F", "G", "H", "I", "J", "K", "L", "M",
               "N", "O", "P", "Q", "R", "S", "T", "U", "V", "W", "X", "Y", "Z">>
LowerCase == <<"a", "b", "c", "d", "e", "f", "g", "h", "i", "j", "k", "l", "m",
               "n", "o", "p", "q", "r", "s", "t", "u", "v", "w", "x", "y", "z">>

\* Characters in code-point order (Python compares str by code point).
CharOrder ==
    <<"!", "+", "-", ".", "/">> \o DigitChars \o UpperCase \o <<"_">>
        \o LowerCase \o <<"~">>

Ord(c) == CHOOSE i \in 1..Len(CharOrder) : CharOrder[i] = c

DigitValues ==
    ("0" :> 0) @@ ("1" :> 1) @@ ("2" :> 2) @@ ("3" :> 3) @@ ("4" :> 4) @@
    ("5" :> 5) @@ ("6" :> 6) @@ ("7" :> 7) @@ ("8" :> 8) @@ ("9" :> 9)
DigitVal(c) == DigitValues[c]
DigitChar(d) == DigitChars[d + 1]

\* str.lower()
Lower(c) ==
    IF \E i \in 1..Len(UpperCase) : UpperCase[i] = c
    THEN LowerCase[CHOOSE i \in 1..Len(UpperCase) : UpperCase[i] = c]
    ELSE c
LowerStr(s) == [i \in 1..Len(s) |-> Lower(s[i])]

\* The first position in lo..hi where s and t differ (they do differ there),
\* found by halving the range.
RECURSIVE FirstDiff(_, _, _, _)
FirstDiff(s, t, lo, hi) ==
    LET mid == (lo + hi) \div 2
    IN  IF lo = hi THEN lo
        ELSE IF SubSeq(s, lo, mid) # SubSeq(t, lo, mid) THEN FirstDiff(s, t, lo, mid)
        ELSE FirstDiff(s, t, mid + 1, hi)

\* Python's str.__lt__: lexicographic by code point, a proper prefix is less.
StrLess(s, t) ==
    LET n == IF Len(s) < Len(t) THEN Len(s) ELSE Len(t)
        i == FirstDiff(s, t, 1, n)
    IN  IF SubSeq(s, 1, n) = SubSeq(t, 1, n) THEN Len(s) < Len(t)
        ELSE Ord(s[i]) < Ord(t[i])

\* any(char.isdigit() for char in tag['name'])
HasDigit(s) == \E i \in 1..Len(s) : s[i] \in Digits

\* The first position in lo..hi of a character of s outside `set` (there is
\* one), found by halving the range.
RECURSIVE FirstOutside(_, _, _, _)
FirstOutside(s, set, lo, hi) ==
    LET mid == (lo + hi) \div 2
    IN  IF lo = hi THEN lo
        ELSE IF \E k \in lo..mid : s[k] \notin set THEN FirstOutside(s, set, lo, mid)
        ELSE FirstOutside(s, set, mid + 1, hi)

\* Number of consecutive characters of s in `set` starting at position i.
RunLen(s, i, set) ==
    IF i > Len(s) THEN 0
    ELSE IF \A k \in i..Len(s) : s[k] \in set THEN Len(s) - i + 1
    ELSE FirstOutside(s, set, i, Len(s)) - i

\* Number of consecutive digits of s starting at position i.
DigitRunLen(s, i) == RunLen(s, i, Digits)

\* s[i:].startswith(w)
StartsWith(s, i, w) == i + Len(w) - 1 <= Len(s) /\ SubSeq(s, i, i + Len(w) - 1) = w

Zeros(n) == [i \in 1..n |-> "0"]

\* int() of the n digits of s starting at position i, for a short run.
RECURSIVE ToNat(_, _, _)
ToNat(s, i, n) ==
    IF n = 0 THEN 0
    ELSE 10 * ToNat(s, i, n - 1) + DigitVal(s[i + n - 1])

\* str(n) for a natural number
RECURSIVE NatToStr(_)
NatToStr(n) ==
    IF n < 10 THEN <<DigitChar(n)>>
    ELSE Append(NatToStr(n \div 10), DigitChar(n % 10))

\* ------------------------------------------------------------ numerals

Reverse(s) == SubSeq([i \in 1..Len(s) |-> s[Len(s) + 1 - i]], 1, Len(s))

\* s without its leading zeros, the last character stays.
StripLeadingZeros(s) ==
    LET z == RunLen(s, 1, {"0"})
    IN  IF s = <<>> THEN s
        ELSE SubSeq(s, (IF z = Len(s) THEN z ELSE z + 1), Len(s))

\* s without its trailing zeros, the first character stays.
StripTrailingZeroChars(s) == Reverse(StripLeadingZeros(Reverse(s)))

\* The numeral of a digit string (of "" it is "0").
Canon(s) == IF s = <<>> THEN <<"0">> ELSE StripLeadingZeros(s)

\* str(int(s[i:i+n]))
Numeral(s, i, n) == Canon(SubSeq(s, i, i + n - 1))

\* a < b for numerals
NumLess(a, b) == Len(a) < Len(b) \/ (Len(a) = Len(b) /\ StrLess(a, b))

Odd(a) == DigitVal(a[Len(a)]) % 2 = 1

\* The arithmetic below is exact, on numerals of any length.  Doubling and
\* halving work digit by digit (the carry of a digit depends on its
\* neighbour only); n steps are taken as steps of 1, 2, 4, 8, ... after the
\* binary digits of n, each one finished before the next one starts.

\* 2 * a
Dbl(a) ==
    LET n == Len(a)
        carry(i) == IF i <= n /\ DigitVal(a[i]) >= 5 THEN 1 ELSE 0
        body == [i \in 1..n |-> DigitChar(((2 * DigitVal(a[i])) % 10) + carry(i + 1))]
    IN  IF carry(1) = 1 THEN <<"1">> \o body ELSE SubSeq(body, 1, n)

\* 2 * a + 1
DblPlus1(a) == LET d == Dbl(a) IN SubSeq(d, 1, Len(d) - 1) \o <<DigitChar(DigitVal(d[Len(d)]) + 1)>>

\* a // 2
Half(a) ==
    LET n == Len(a)
        from(i) == DigitVal(a[i]) + (IF i > 1 /\ DigitVal(a[i - 1]) % 2 = 1 THEN 10 ELSE 0)
        body == [i \in 1..n |-> DigitChar(from(i) \div 2)]
    IN  SubSeq(body, IF n > 1 /\ body[1] = "0" THEN 2 ELSE 1, n)

\* 5 * a
Times5(a) == IF a = <<"0">> THEN a ELSE Half(a \o <<"0">>)

\* a < b for long numerals
BigLess(a, b) ==
    IF Len(a) # Len(b) THEN Len(a) < Len(b)
    ELSE IF a = b THEN FALSE
    ELSE LET i == FirstDiff(a, b, 1, Len(a)) IN DigitVal(a[i]) < DigitVal(b[i])

\* The carries of a sum or the borrows of a difference, all at once.  To
\* begin with, mark i says whether digit i carries on its own ("g"), passes
\* a carry on ("p") or stops it ("k"); in the end it says whether the digits
\* i..n together carry.  Each round doubles the span d a mark stands for.
RECURSIVE Carries(_, _)
Carries(x, d) ==
    LET n == Len(x)
        y == [i \in 1..n |-> IF x[i] = "p" /\ i + d <= n THEN x[i + d] ELSE x[i]]
    IN  IF d >= n THEN x ELSE Carries(SubSeq(y, 1, n), 2 * d)

\* a - b for a >= b
BigSub(a, b) ==
    LET n == Len(a)
        bp == Zeros(n - Len(b)) \o b
        marks == [i \in 1..n |-> IF DigitVal(a[i]) < DigitVal(bp[i]) THEN "g"
                                 ELSE IF a[i] = bp[i] THEN "p" ELSE "k"]
        x == Carries(SubSeq(marks, 1, n), 1)
        borrow(i) == IF i < n /\ x[i + 1] = "g" THEN 1 ELSE 0
        digit(i) == (10 + DigitVal(a[i]) - DigitVal(bp[i]) - borrow(i)) % 10
    IN  Canon(SubSeq([i \in 1..n |-> DigitChar(digit(i))], 1, n))

\* a + b
NumAdd(a, b) ==
    LET n == IF Len(a) > Len(b) THEN Len(a) ELSE Len(b)
        ap == Zeros(n - Len(a)) \o a
        bp == Zeros(n - Len(b)) \o b
        sum(i) == DigitVal(ap[i]) + DigitVal(bp[i])
        marks == [i \in 1..n |-> IF sum(i) >= 10 THEN "g"
                                 ELSE IF sum(i) = 9 THEN "p" ELSE "k"]
        x == Carries(SubSeq(marks, 1, n), 1)
        carry(i) == IF i < n /\ x[i + 1] = "g" THEN 1 ELSE 0
        body == [i \in 1..n |-> DigitChar((sum(i) + carry(i)) % 10)]
    IN  IF x[1] = "g" THEN <<"1">> \o body ELSE SubSeq(body, 1, n)

\* a * 2**(2**k)
RECURSIVE DblPow(_, _)
DblPow(a, k) ==
    LET b == DblPow(a, k - 1)
    IN  IF k = 0 THEN Dbl(a)
        ELSE IF b = <<>> THEN b ELSE DblPow(b, k - 1)

\* a * 2**(n * 2**k)
RECURSIVE TimesPow2Bits(_, _, _)
TimesPow2Bits(a, n, k) ==
    LET b == IF n % 2 = 1 THEN DblPow(a, k) ELSE a
    IN  IF n = 0 THEN a
        ELSE IF b = <<>> THEN b ELSE TimesPow2Bits(b, n \div 2, k + 1)

\* a * 2**n
TimesPow2(a, n) == TimesPow2Bits(a, n, 0)

\* a * 5**(2**k)
RECURSIVE Times5Pow(_, _)
Times5Pow(a, k) ==
    LET b == Times5Pow(a, k - 1)
    IN  IF k = 0 THEN Times5(a)
        ELSE IF b = <<>> THEN b ELSE Times5Pow(b, k - 1)

\* a * 5**(n * 2**k)
RECURSIVE TimesPow5Bits(_, _, _)
TimesPow5Bits(a, n, k) ==
    LET b == IF n % 2 = 1 THEN Times5Pow(a, k) ELSE a
    IN  IF n = 0 THEN a
        ELSE IF b = <<>> THEN b ELSE TimesPow5Bits(b, n \div 2, k + 1)

\* a * 5**n
TimesPow5(a, n) == TimesPow5Bits(a, n, 0)

\* int(c, 16) of one character
HexVal(c) ==
    IF c \in Digits THEN DigitVal(c)
    ELSE 9 + (CHOOSE i \in 1..6 : LowerCase[i] = Lower(c))

\* int(s[lo:hi+1], 2**bits) as a numeral, for bits 1, 3, 4: the value of
\* the left half, moved left past the right half, plus that of the right.
RECURSIVE FromBase(_, _, _, _)
FromBase(s, lo, hi, bits) ==
    LET mid == (lo + hi) \div 2
        left == FromBase(s, lo, mid, bits)
        right == FromBase(s, mid + 1, hi, bits)
    IN  IF lo > hi THEN <<"0">>
        ELSE IF lo = hi THEN NatToStr(HexVal(s[lo]))
        ELSE IF left = <<>> \/ right = <<>> THEN left
        ELSE NumAdd(TimesPow2(left, bits * (hi - mid)), right)

\* ----------------------------------------------- packaging.version.parse

Separators == {"-", "_", "."}

\* The spellings of a segment's letter, a longer spelling before its prefix,
\* each with the letter _parse_letter_version makes of it.
Word(w, l) == [w |-> w, l |-> l]
PreWords ==
    << Word(<<"a", "l", "p", "h", "a">>, <<"a">>), Word(<<"a">>, <<"a">>),
       Word(<<"b", "e", "t", "a">>, <<"b">>), Word(<<"b">>, <<"b">>),
       Word(<<"p", "r", "e", "v", "i", "e", "w">>, <<"r", "c">>),
       Word(<<"p", "r", "e">>, <<"r", "c">>),
       Word(<<"r", "c">>, <<"r", "c">>), Word(<<"c">>, <<"r", "c">>) >>
PostWords ==
    << Word(<<"p", "o", "s", "t">>, <<"p", "o", "s", "t">>),
       Word(<<"r", "e", "v">>, <<"p", "o", "s", "t">>),
       Word(<<"r">>, <<"p", "o", "s", "t">>) >>
DevWords == << Word(<<"d", "e", "v">>, <<"d", "e", "v">>) >>

\* A segment of the version pattern: absent, or its letter and number, and
\* the position after it.
NoSegment(pos) == [found |-> FALSE, l |-> <<>>, n |-> <<"0">>, pos |-> pos]
Segment(l, n, pos) == [found |-> TRUE, l |-> l, n |-> n, pos |-> pos]

\* [-_.]? word [-_.]? [0-9]*  at position i
ParseSegment(s, i, words) ==
    LET j == IF i <= Len(s) /\ s[i] \in Separators THEN i + 1 ELSE i
        ks == { k \in 1..Len(words) : StartsWith(s, j, words[k].w) }
    IN  IF ks = {} THEN NoSegment(i)
        ELSE LET k == CHOOSE x \in ks : \A y \in ks : x <= y
                 a == j + Len(words[k].w)
                 b == IF a <= Len(s) /\ s[a] \in Separators THEN a + 1 ELSE a
                 n == DigitRunLen(s, b)
             IN  Segment(words[k].l, Numeral(s, b, n), b + n)

\* The post segment: -N, or a segment with one of the post words.
ParsePost(s, i) ==
    IF i <= Len(s) /\ s[i] = "-" /\ DigitRunLen(s, i + 1) > 0
    THEN LET n == DigitRunLen(s, i + 1)
         IN  Segment(<<"p", "o", "s", "t">>, Numeral(s, i + 1, n), i + 1 + n)
    ELSE ParseSegment(s, i, PostWords)

\* The positions in lo..hi of s where a part starts: lo, and every position
\* after a character of `seps`.
PartStarts(s, lo, hi, seps) ==
    SelectSeq([k \in 1..(hi - lo + 1) |-> lo + k - 1],
              LAMBDA p : p = lo \/ s[p - 1] \in seps)

\* The release segment N(.N)* starting at position i: the numbers read and
\* the position after them; pos = 0 when no number starts at i.  The segment
\* runs on over digits and over dots that a digit follows.
ParseRelease(s, i) ==
    LET n == Len(s)
        inside == [p \in 1..n |->
                     s[p] \in Digits \/ (s[p] = "." /\ p < n /\ s[p + 1] \in Digits)]
        j == i + RunLen(SubSeq(inside, 1, n), i, {TRUE})
        starts == PartStarts(s, i, j - 1, {"."})
    IN  IF DigitRunLen(s, i) = 0 THEN [rel |-> <<>>, pos |-> 0]
        ELSE [rel |-> SubSeq([k \in 1..Len(starts) |->
                                Numeral(s, starts[k], DigitRunLen(s, starts[k]))],
                             1, Len(starts)),
              pos |-> j]

\* The local segment after "+": parts of letters and digits with one
\* separator between them, up to the end; ok = FALSE when s[i:] is not that.
AlNum == Digits \cup { LowerCase[i] : i \in 1..Len(LowerCase) }
ParseLocal(s, i) ==
    LET n == Len(s)
        starts == PartStarts(s, i, n, Separators)
        part(p) == SubSeq(s, p, p + RunLen(s, p, AlNum) - 1)
        item(p) == IF part(p) = SubSeq(s, p, p + DigitRunLen(s, p) - 1)
                   THEN [num |-> TRUE, v |-> Canon(part(p))]
                   ELSE [num |-> FALSE, v |-> part(p)]
    IN  IF /\ i <= n
           /\ \A p \in i..n : s[p] \in AlNum \cup Separators
           /\ s[n] \notin Separators
           /\ \A k \in 1..Len(starts) : part(starts[k]) # <<>>
        THEN [ok |-> TRUE,
              parts |-> SubSeq([k \in 1..Len(starts) |-> item(starts[k])],
                               1, Len(starts))]
        ELSE [ok |-> FALSE, parts |-> <<>>]

NotAVersion ==
    [valid |-> FALSE, epoch |-> <<"0">>, release |-> <<>>, pre |-> NoSegment(0),
     post |-> NoSegment(0), dev |-> NoSegment(0), local |-> <<>>]

\* version.parse(tag): the match of VERSION_PATTERN (case ignored)
\*   v? (N!)? N(.N)* pre? post? dev? (+local)?
\* valid = FALSE stands for a LegacyVersion (packaging < 22) or for
\* InvalidVersion being raised (packaging >= 22).
ParseVersion(tag) ==
    LET s == LowerStr(tag)
        i0 == IF StartsWith(s, 1, <<"v">>) THEN 2 ELSE 1
        en == DigitRunLen(s, i0)
        has_epoch == en > 0 /\ StartsWith(s, i0 + en, <<"!">>)
        Matched(r, pre, post, dev, loc) ==
            IF r.pos = 0 \/ ~loc.ok THEN NotAVersion
            ELSE [valid |-> TRUE,
                  epoch |-> IF has_epoch THEN Numeral(s, i0, en) ELSE <<"0">>,
                  release |-> r.rel, pre |-> pre, post |-> post, dev |-> dev,
                  local |-> loc.parts]
        AfterDev(r, pre, post, dev) ==
            Matched(r, pre, post, dev,
                    IF StartsWith(s, dev.pos, <<"+">>) THEN ParseLocal(s, dev.pos + 1)
                    ELSE [ok |-> dev.pos = Len(s) + 1, parts |-> <<>>])
        AfterPost(r, pre, post) ==
            AfterDev(r, pre, post, ParseSegment(s, post.pos, DevWords))
        AfterPre(r, pre) == AfterPost(r, pre, ParsePost(s, pre.pos))
        AfterRelease(r) == AfterPre(r, ParseSegment(s, r.pos, PreWords))
    IN  AfterRelease(ParseRelease(s, IF has_epoch THEN i0 + en + 1 ELSE i0))

\* _cmpkey drops the trailing zeros of the release: 1.0.0 == 1.0 == 1.
StripTrailingZeros(r) == SubSeq(r, 1, Len(r) - RunLen(Reverse(r), 1, {<<"0">>}))

\* The entries of the comparison key. Python compares the key's tuples entry
\* by entry; here the nested tuples are laid out flat, the end of a tuple
\* being an entry below every other: a tuple that is a prefix of another is
\* the lesser one.  NegativeInfinity is below and Infinity above everything;
\* in a local version a text part (NegativeInfinity, part) is below a number
\* (part, "").
TupleEnd == [r |-> 0, n |-> <<"0">>, s |-> <<>>]
NegativeInfinity == [r |-> 1, n |-> <<"0">>, s |-> <<>>]
KeyStr(s) == [r |-> 2, n |-> <<"0">>, s |-> s]
KeyNum(n) == [r |-> 3, n |-> n, s |-> <<>>]
Infinity == [r |-> 4, n |-> <<"0">>, s |-> <<>>]

KeyEntryLess(a, b) ==
    IF a.r # b.r THEN a.r < b.r
    ELSE IF a.n # b.n THEN NumLess(a.n, b.n)
    ELSE StrLess(a.s, b.s)

\* Version._key: (epoch, release, pre, post, dev, local) of _cmpkey
VersionKey(v) ==
    LET release == StripTrailingZeros(v.release)
        seg(g) == <<KeyStr(g.l), KeyNum(g.n)>>
    IN  <<KeyNum(v.epoch)>>
        \o [i \in 1..Len(release) |-> KeyNum(release[i])] \o <<TupleEnd>>
        \o (IF ~v.pre.found /\ ~v.post.found /\ v.dev.found THEN <<NegativeInfinity>>
            ELSE IF ~v.pre.found THEN <<Infinity>>
            ELSE seg(v.pre))
        \o (IF v.post.found THEN seg(v.post) ELSE <<NegativeInfinity>>)
        \o (IF v.dev.found THEN seg(v.dev) ELSE <<Infinity>>)
        \o (IF v.local = <<>> THEN <<NegativeInfinity>>
            ELSE [i \in 1..Len(v.local) |->
                    IF v.local[i].num THEN KeyNum(v.local[i].v)
                    ELSE KeyStr(v.local[i].v)] \o <<TupleEnd>>)

\* Python's tuple comparison: by the first entries that differ, a proper
\* prefix is less.
KeyLess(a, b) ==
    LET n == IF Len(a) < Len(b) THEN Len(a) ELSE Len(b)
        i == FirstDiff(a, b, 1, n)
    IN  IF SubSeq(a, 1, n) = SubSeq(b, 1, n) THEN Len(a) < Len(b)
        ELSE KeyEntryLess(a[i], b[i])

\* Version.__lt__ and Version.__eq__ compare the keys.
VersionLess(v, w) == KeyLess(VersionKey(v), VersionKey(w))
VersionEq(v, w) == VersionKey(v) = VersionKey(w)

\* (parsed_version, tag) < (parsed_version, tag): Python tuple comparison.
PairLess(p, q) ==
    IF ~VersionEq(p.ver, q.ver) THEN VersionLess(p.ver, q.ver)
    ELSE StrLess(p.tag, q.tag)

\* ------------------------------------------------- get_latest_tag, sorting

\* The value None (also what `if latest_tag:` takes for "no tag").
None == <<>>

\* The list s in the order given by place: place[i] is where s[i] goes.
Placed(s, place) == [k \in 1..Len(s) |-> s[CHOOSE i \in 1..Len(s) : place[i] = k]]

\* list.sort(reverse=True) on (parsed_version, tag) pairs.  The sort is
\* stable: pair j comes before pair i when it is greater, or when it is not
\* less and earlier in the list.
SortPairsDesc(ps) ==
    LET n == Len(ps)
        before(i) == { j \in 1..n : \/ PairLess(ps[i], ps[j])
                                    \/ (j < i /\ ~PairLess(ps[j], ps[i])) }
    IN  Placed(ps, SubSeq([i \in 1..n |-> Cardinality(before(i)) + 1], 1, n))

\* sorted(all_tags) without reverse=True
SortStrAsc(ts) ==
    LET n == Len(ts)
        before(i) == { j \in 1..n : \/ StrLess(ts[j], ts[i])
                                    \/ (j < i /\ ~StrLess(ts[i], ts[j])) }
    IN  Placed(ts, SubSeq([i \in 1..n |-> Cardinality(before(i)) + 1], 1, n))

\* sorted(all_tags, reverse=True)
SortStrDesc(ts) ==
    LET n == Len(ts)
        before(i) == { j \in 1..n : \/ StrLess(ts[i], ts[j])
                                    \/ (j < i /\ ~StrLess(ts[j], ts[i])) }
    IN  Placed(ts, SubSeq([i \in 1..n |-> Cardinality(before(i)) + 1], 1, n))

\* The loop of lines 57-63 with packaging < 22: the (version, tag) pairs of
\* the tags that parse, in the order of all_tags.
ValidTags(tags) ==
    SelectSeq([i \in 1..Len(tags) |-> [ver |-> ParseVersion(tags[i]), tag |-> tags[i]]],
              LAMBDA p : p.ver.valid)

\* Lines 54-74: the value returned and the records logged.  legacy:
\* packaging.version has the attribute LegacyVersion (packaging < 22).
\* Without it (packaging >= 22), line 60 raises AttributeError for the first
\* tag that parses, which line 72 catches: the function logs an error and
\* returns None.
SelectLatest(tags, legacy) ==
    LET Latest(valid_tags) ==
            IF valid_tags # <<>>
            THEN IF legacy
                 THEN [value |-> SortPairsDesc(valid_tags)[1].tag, events |-> <<>>]
                 ELSE [value |-> None, events |-> <<"error:sorting_tags">>]
            ELSE [value |-> IF tags # <<>> THEN SortStrDesc(tags)[1] ELSE None,
                  events |-> <<"warning:no_semantic_versions">>]
    IN  Latest(ValidTags(tags))

\* ------------------------------------------- get_latest_tag, pagination

\* `if len(all_tags) < 5 and tags_url`
MinTags == 5

\* A registry answer to one GET of a tags page:
\*   status  "ok"             a JSON object; names are its results' names,
\*                            next says whether it gives a next-page URL
\*           "network_error"  requests.get raises ConnectionError / Timeout
\*           "http_error"     raise_for_status raises HTTPError
\*           "not_json"       the body is not JSON: response.json raises
\*                            requests.exceptions.JSONDecodeError, a
\*                            RequestException (requests >= 2.27), or a
\*                            plain ValueError (requests < 2.27)
\*           "bad_shape"      valid JSON of another shape (a result without
\*                            'name', results not a list, a top-level list):
\*                            KeyError / TypeError / AttributeError
OkPage(names, next) == [status |-> "ok", names |-> names, next |-> next]
FailPage(status) == [status |-> status, names |-> <<>>, next |-> FALSE]

\* The installed libraries, on which the behaviour of the code depends:
\*   LegacyVersion    packaging.version.LegacyVersion exists (packaging < 22)
\*   JSONDecodeError  response.json raises a RequestException (requests >= 2.27)
Builds == [LegacyVersion : BOOLEAN, JSONDecodeError : BOOLEAN]

\* The answers for which line 47 catches what the request raised.
RequestExceptions(build) ==
    {"network_error", "http_error"}
    \cup (IF build.JSONDecodeError THEN {"not_json"} ELSE {})

\* [tag['name'] for tag in results]: the filter on digits left out
AllTags(names) == names

\* [tag['name'] for tag in results if any(char.isdigit() for char in tag['name'])]
DigitTags(names) == SelectSeq(names, HasDigit)

\* Lines 23-28: the locals before the loop.  tags_url is the number of the
\* page its URL asks for, 0 for None; exit is "" while the function runs on,
\* "return_none" after line 49, "raise" when an exception leaves it.
LoopStart ==
    [tags_url |-> 1, current_page |-> 0, max_pages |-> 1, all_tags |-> <<>>,
     exit |-> ""]

\* Line 30: while tags_url and current_page < max_pages
LoopCond(l) == l.tags_url # 0 /\ l.current_page < l.max_pages

\* max_pages += 1 whatever was collected
BumpMaxPagesAlways(l) == [l EXCEPT !.max_pages = @ + 1]

\* Line 45-46
BumpMaxPages(l) ==
    IF Len(l.all_tags) < MinTags /\ l.tags_url # 0
    THEN [l EXCEPT !.max_pages = @ + 1]
    ELSE l

\* Lines 31-49: one iteration of the loop, given the registry's answer.
LoopBody(l, page, build) ==
    IF page.status \in RequestExceptions(build) THEN [l EXCEPT !.exit = "return_none"]
    ELSE IF page.status # "ok" THEN [l EXCEPT !.exit = "raise"]
    ELSE BumpMaxPages(
           [l EXCEPT !.all_tags = @ \o DigitTags(page.names),
                     !.tags_url = IF page.next THEN @ + 1 ELSE 0,
                     !.current_page = @ + 1])

\* The answer to the GET of page n of a repository with these pages; a page
\* the registry does not have is a 404.
PageOf(pages, n) ==
    IF n \in 1..Len(pages) THEN pages[n] ELSE FailPage("http_error")

RECURSIVE RunLoop(_, _, _)
RunLoop(l, pages, build) ==
    IF l.exit = "" /\ LoopCond(l)
    THEN RunLoop(LoopBody(l, PageOf(pages, l.tags_url), build), pages, build)
    ELSE l

\* What a call of get_latest_tag gives: a returned value or an exception.
Return(v) == [kind |-> "return", value |-> v]
Raise == [kind |-> "raise", value |-> None]

\* Lines 47-74, after the loop: what the call gives, and the records it logs
\* with the logger at INFO (line 11), where the debug record of line 51 is
\* not one of them; the steps ProcessFile and SortTags add it under -v.
AfterLoop(l, build) ==
    LET Returned(latest) ==
            [kind |-> "return", value |-> latest.value, events |-> latest.events]
    IN  IF l.exit = "raise" THEN [kind |-> "raise", value |-> None, events |-> <<>>]
        ELSE IF l.exit = "return_none"
        THEN [kind |-> "return", value |-> None, events |-> <<"error:fetching_tags">>]
        ELSE Returned(SelectLatest(l.all_tags, build.LegacyVersion))

\* get_latest_tag(repo_name) against a registry holding `pages` for it.
get_latest_tag(pages, build) == AfterLoop(RunLoop(LoopStart, pages, build), build)

\* ------------------------------------------------------------- YAML

\* A file's text is a sequence of lines:
\*   comment   a "# ..." line
\*   pair      a top-level  key: scalar  entry; q says the scalar is written
\*             in single quotes, text is the scalar without them
\*   item      a  - x  entry at the left margin: of a list that is the whole
\*             document, or of the list that is the value of the pair before
\*   bad       text the YAML scanner rejects
Comment == [k |-> "comment", key |-> "", text |-> <<>>, q |-> FALSE]
Pair(key, text, q) == [k |-> "pair", key |-> key, text |-> text, q |-> q]
Item == [k |-> "item", key |-> "", text |-> <<"x">>, q |-> FALSE]
Bad == [k |-> "bad", key |-> "", text |-> <<>>, q |-> FALSE]

\* A loaded value: the name of its Python type and str(value).  The type
\* "error" stands for a value whose construction raises.
Value(t, s) == [t |-> t, s |-> s]
StrValue(s) == Value("str", s)
PyNone == Value("NoneType", <<"N", "o", "n", "e">>)
PyTrue == Value("bool", <<"T", "r", "u", "e">>)
PyFalse == Value("bool", <<"F", "a", "l", "s", "e">>)
LoadError == Value("error", <<>>)

\* str.upper() of a character, and the three spellings the resolver knows of
\* a word: lower case, capitalised, upper case.
Upper(c) ==
    IF \E i \in 1..Len(LowerCase) : LowerCase[i] = c
    THEN UpperCase[CHOOSE i \in 1..Len(LowerCase) : LowerCase[i] = c]
    ELSE c
Spellings(w) ==
    { w, [i \in 1..Len(w) |-> IF i = 1 THEN Upper(w[i]) ELSE w[i]],
      [i \in 1..Len(w) |-> Upper(w[i])] }

NullTexts == { <<>>, <<"~">> } \cup Spellings(<<"n", "u", "l", "l">>)
TrueTexts ==
    Spellings(<<"y", "e", "s">>) \cup Spellings(<<"t", "r", "u", "e">>)
        \cup Spellings(<<"o", "n">>)
FalseTexts ==
    Spellings(<<"n", "o">>) \cup Spellings(<<"f", "a", "l", "s", "e">>)
        \cup Spellings(<<"o", "f", "f">>)
InfTexts == { <<".", "i", "n", "f">>, <<".", "I", "n", "f">>, <<".", "I", "N", "F">> }
NanTexts == { <<".", "n", "a", "n">>, <<".", "N", "a", "N">>, <<".", "N", "A", "N">> }
OctDigits == {"0", "1", "2", "3", "4", "5", "6", "7"}
HexDigits == Digits \cup {"a", "b", "c", "d", "e", "f", "A", "B", "C", "D", "E", "F"}

\* s[i:] is not empty and all its characters are in `set`.
AllIn(s, i, set) == i <= Len(s) /\ \A j \in i..Len(s) : s[j] \in set

\* value.replace('_', '')
RemoveUnderscores(s) == SelectSeq(s, LAMBDA c : c # "_")

\* The text after a leading sign.
Unsigned(s) == IF s # <<>> /\ s[1] \in {"-", "+"} THEN Tail(s) ELSE s
Negative(s) == s # <<>> /\ s[1] = "-"

\* The resolver's int pattern (without its base 60 form):
\*   [-+]?0b[0-1_]+ | [-+]?0[0-7_]+ | [-+]?(?:0|[1-9][0-9_]*) | [-+]?0x[0-9a-fA-F_]+
IsBinary(u) == StartsWith(u, 1, <<"0", "b">>) /\ AllIn(u, 3, {"0", "1", "_"})
IsOctal(u) == StartsWith(u, 1, <<"0">>) /\ AllIn(u, 2, OctDigits \cup {"_"})
IsDecimal(u) ==
    \/ u = <<"0">>
    \/ /\ u # <<>>
       /\ u[1] \in Digits \ {"0"}
       /\ (Len(u) = 1 \/ AllIn(u, 2, Digits \cup {"_"}))
IsHex(u) == StartsWith(u, 1, <<"0", "x">>) /\ AllIn(u, 3, HexDigits \cup {"_"})
IsInt(s) ==
    LET u == Unsigned(s) IN IsBinary(u) \/ IsOctal(u) \/ IsDecimal(u) \/ IsHex(u)

\* (?:[eE][-+][0-9]+)?  from position k to the end of u
IsExponent(u, k) ==
    \/ k = Len(u) + 1
    \/ /\ k + 2 <= Len(u)
       /\ u[k] \in {"e", "E"}
       /\ u[k + 1] \in {"-", "+"}
       /\ AllIn(u, k + 2, Digits)

\* The resolver's float pattern (without its base 60 form):
\*   [-+]?[0-9][0-9_]*\.[0-9_]*(?:[eE][-+][0-9]+)? | \.[0-9][0-9_]*(?:[eE][-+][0-9]+)?
\*   | [-+]?\.(?:inf|Inf|INF) | \.(?:nan|NaN|NAN)
IsFloat(s) ==
    LET u == Unsigned(s)
        a == RunLen(u, 1, Digits \cup {"_"})
        b == RunLen(u, a + 2, Digits \cup {"_"})
        c == RunLen(s, 2, Digits \cup {"_"})
    IN  \/ /\ u # <<>>
           /\ u[1] \in Digits
           /\ StartsWith(u, a + 1, <<".">>)
           /\ IsExponent(u, a + 2 + b)
        \/ /\ StartsWith(s, 1, <<".">>)
           /\ Len(s) >= 2
           /\ s[2] \in Digits
           /\ IsExponent(s, 2 + c)
        \/ u \in InfTexts
        \/ s \in NanTexts

\* The resolver's timestamp pattern, the date form: NNNN-NN-NN
IsDate(s) ==
    /\ Len(s) = 10
    /\ \A i \in 1..10 : IF i \in {5, 8} THEN s[i] = "-" ELSE s[i] \in Digits

\* Resolver.resolve: the tag of a plain scalar, the first pattern that
\* matches in the order bool, float, int, merge, null, timestamp, value,
\* yaml.  The merge pattern is "<<", the value pattern "=", the yaml pattern
\* one of "!", "&", "*": of these texts only "!" is made of characters of
\* CharOrder.
ResolveTag(s) ==
    IF s \in TrueTexts \cup FalseTexts THEN "bool"
    ELSE IF IsFloat(s) THEN "float"
    ELSE IF IsInt(s) THEN "int"
    ELSE IF s \in NullTexts THEN "null"
    ELSE IF IsDate(s) THEN "timestamp"
    ELSE IF s = <<"!">> THEN "yaml"
    ELSE "str"

\* construct_yaml_int: int() of an empty digit string raises ValueError.
ConstructInt(s) ==
    LET Signed(n) == Value("int", IF Negative(s) /\ n # <<"0">> THEN <<"-">> \o n ELSE n)
        Parsed(value) ==
            IF value \in { <<"0", "b">>, <<"0", "x">> } THEN LoadError
            ELSE IF value = <<"0">> THEN Signed(value)
            ELSE IF StartsWith(value, 1, <<"0", "b">>)
            THEN Signed(FromBase(value, 3, Len(value), 1))
            ELSE IF StartsWith(value, 1, <<"0", "x">>)
            THEN Signed(FromBase(value, 3, Len(value), 4))
            ELSE IF value[1] = "0" THEN Signed(FromBase(value, 1, Len(value), 3))
            ELSE Signed(value)
    IN  Parsed(Unsigned(RemoveUnderscores(s)))

\* ---- float(text) and repr(float)

\* 2**52 and 2**53
TwoTo52 == <<"4", "5", "0", "3", "5", "9", "9", "6", "2", "7", "3", "7", "0", "4", "9", "6">>
TwoTo53 == <<"9", "0", "0", "7", "1", "9", "9", "2", "5", "4", "7", "4", "0", "9", "9", "2">>

Double(cls, m, e) == [cls |-> cls, m |-> m, e |-> e]

\* The highest binary digit a number of doublings below 4 * digits + 4 can
\* have: 2**t < 10**digits gives t < 4 * digits.
TopBit(digits) == CHOOSE k \in 0..12 : 2^k <= 4 * digits + 4 /\ 4 * digits + 4 < 2^(k + 1)

\* The most doublings t of q with q * 2**t <= p, taken from the highest
\* binary digit of t down.
RECURSIVE MostDoublingsBelow(_, _, _, _)
MostDoublingsBelow(p, q, t, k) ==
    LET q2 == DblPow(q, k)
    IN  IF ~BigLess(p, q2)
        THEN (IF k = 0 THEN [q |-> q2, t |-> t + 1]
              ELSE MostDoublingsBelow(p, q2, t + 2^k, k - 1))
        ELSE (IF k = 0 THEN [q |-> q, t |-> t]
              ELSE MostDoublingsBelow(p, q, t, k - 1))

\* While p >= q53 (p/q >= 2**53), q doubles and the exponent grows.
ScaleDown(p, q53) ==
    LET Scaled(s) == [p |-> p, q52 |-> s.q, e |-> s.t + 1]
    IN  Scaled(MostDoublingsBelow(p, q53, 0, TopBit(Len(p) - Len(q53) + 1)))

\* The most doublings t <= room of p with p * 2**t < q.
RECURSIVE MostDoublingsUnder(_, _, _, _, _)
MostDoublingsUnder(p, q, t, room, k) ==
    LET p2 == DblPow(p, k)
    IN  IF 2^k <= room /\ BigLess(p2, q)
        THEN (IF k = 0 THEN [p |-> p2, t |-> t + 1]
              ELSE MostDoublingsUnder(p2, q, t + 2^k, room - 2^k, k - 1))
        ELSE (IF k = 0 THEN [p |-> p, t |-> t]
              ELSE MostDoublingsUnder(p, q, t, room, k - 1))

\* While p < q52 (p/q < 2**52) and the exponent has room above that of the
\* subnormal numbers, p doubles and the exponent falls.
ScaleUp(p, q52, room) ==
    LET Scaled(s) ==
            IF s.t < room THEN [p |-> Dbl(s.p), q52 |-> q52, e |-> -(s.t + 1)]
            ELSE [p |-> s.p, q52 |-> q52, e |-> -s.t]
    IN  Scaled(MostDoublingsUnder(p, q52, 0, room, TopBit(Len(q52) - Len(p) + 1)))

\* One binary digit of p // q, for p < 2 * q: the digit joins m, q halves.
DivStep(s) ==
    IF BigLess(s.p, s.q) THEN [p |-> s.p, q |-> Half(s.q), m |-> Dbl(s.m)]
    ELSE [p |-> BigSub(s.p, s.q), q |-> Half(s.q), m |-> DblPlus1(s.m)]

\* 2**k steps
RECURSIVE DivSteps(_, _)
DivSteps(s, k) ==
    LET t == DivSteps(s, k - 1)
    IN  IF k = 0 THEN DivStep(s)
        ELSE IF t.m = <<>> THEN t ELSE DivSteps(t, k - 1)

\* divmod(p, q) for p < q * 2**53, given q52 = q * 2**52: 52 = 32 + 16 + 4
\* steps and the last one, which leaves q.
DivBits(p, q52) ==
    LET Last(s52, ge) ==
            [m |-> IF ge THEN DblPlus1(s52.m) ELSE Dbl(s52.m),
             r |-> IF ge THEN BigSub(s52.p, s52.q) ELSE s52.p,
             q |-> s52.q]
        After52(s52) == Last(s52, ~BigLess(s52.p, s52.q))
        After48(s48) == IF s48.m = <<>> THEN s48 ELSE After52(DivSteps(s48, 2))
        After32(s32) == IF s32.m = <<>> THEN s32 ELSE After48(DivSteps(s32, 4))
    IN  After32(DivSteps([p |-> p, q |-> q52, m |-> <<"0">>], 5))

\* The IEEE 754 double nearest to d * 10**e10 (ties to even), d a numeral:
\* cls "zero", "inf", or "finite" with the value m * 2**e, where
\* 2**52 <= m < 2**53, or m < 2**52 and e = -1074.  The value is
\* (p0 / q0) * 2**e0, the powers of two of 10**e10 going to the exponent.
ToDouble(d, e10) ==
    LET mag == Len(d) + e10
        e0 == IF e10 < -1074 THEN -1074 ELSE e10
        Finite(m1, e) ==
            IF m1 = <<"0">> THEN Double("zero", <<"0">>, 0)
            ELSE IF m1 = TwoTo53
            THEN (IF e + 1 > 971 THEN Double("inf", <<"0">>, 0)
                  ELSE Double("finite", TwoTo52, e + 1))
            ELSE IF e > 971 THEN Double("inf", <<"0">>, 0)
            ELSE Double("finite", m1, e)
        RoundUp(dm, twice) == BigLess(dm.q, twice) \/ (twice = dm.q /\ Odd(dm.m))
        Rounded(dm, e) ==
            Finite(IF RoundUp(dm, Dbl(dm.r)) THEN NumAdd(dm.m, <<"1">>) ELSE dm.m, e)
        Divided(n) == Rounded(DivBits(n.p, n.q52), e0 + n.e)
        Quotient(p0, q52, q53) ==
            Divided(IF BigLess(p0, q52) THEN ScaleUp(p0, q52, 1074 + e0)
                    ELSE IF BigLess(p0, q53) THEN [p |-> p0, q52 |-> q52, e |-> 0]
                    ELSE ScaleDown(p0, q53))
        Fraction(p0, q52) == Quotient(p0, q52, Dbl(q52))
    IN  IF d = <<"0">> \/ mag < -330 THEN Double("zero", <<"0">>, 0)
        ELSE IF mag > 310 THEN Double("inf", <<"0">>, 0)
        ELSE IF e10 >= 0 THEN Fraction(TimesPow5(d, e10), TimesPow2(<<"1">>, 52))
        ELSE Fraction(d, TimesPow2(TimesPow5(<<"1">>, -e10), (e0 - e10) + 52))

\* The digits of x rounded to n significant digits (ties to even), and
\* whether the rounding carried into a further digit.
RoundTo(x, n) ==
    LET head == SubSeq(x, 1, n)
        next == DigitVal(x[n + 1])
        rest == \E j \in (n + 2)..Len(x) : x[j] # "0"
        Cut(h) == IF Len(h) > n THEN [d |-> SubSeq(h, 1, n), carry |-> 1]
                  ELSE [d |-> h, carry |-> 0]
    IN  IF Len(x) <= n THEN [d |-> x, carry |-> 0]
        ELSE IF next > 5 \/ (next = 5 /\ (rest \/ Odd(head)))
        THEN Cut(NumAdd(head, <<"1">>))
        ELSE [d |-> head, carry |-> 0]

\* The fewest digits (at most 17) of a decimal that float() takes back to
\* the double x: a decimal strictly between lo and hi, the middles of x and
\* its neighbours, or on one of them when the mantissa is even.  Of the
\* decimals of n digits just below and just above x the one inside is
\* taken, of two the nearer.  x, lo and hi are written on the same scale.
RECURSIVE ShortestFrom(_, _, _, _, _, _)
ShortestFrom(x, lo, hi, incl, decpt, n) ==
    LET pad == Zeros(Len(x) - n)
        head == SubSeq(x, 1, n)
        Inside(v) == (BigLess(lo, v) /\ BigLess(v, hi)) \/ (incl /\ (v = lo \/ v = hi))
        Nearest(c) == [digits |-> StripTrailingZeroChars(c.d), decpt |-> decpt + c.carry]
        Pick(next, down_inside, up_inside) ==
            IF n = 17 \/ (down_inside /\ up_inside) THEN Nearest(RoundTo(x, n))
            ELSE IF down_inside
            THEN [digits |-> StripTrailingZeroChars(head), decpt |-> decpt]
            ELSE IF up_inside
            THEN [digits |-> StripTrailingZeroChars(SubSeq(next, 1, n)),
                  decpt |-> decpt + (Len(next) - n)]
            ELSE ShortestFrom(x, lo, hi, incl, decpt, n + 1)
        Neighbours(next) == Pick(next, Inside(head \o pad), Inside(next \o pad))
    IN  IF Len(x) <= n THEN [digits |-> StripTrailingZeroChars(x), decpt |-> decpt]
        ELSE Neighbours(NumAdd(head, <<"1">>))

\* The shortest digits of m * 2**e.  With f = 2**(e-2), or 5**(2-e) on the
\* scale 10**(2-e), x is 4m * f and the middles are (4m - 2) * f and
\* (4m + 2) * f; below a power of two the doubles are twice as close and the
\* middle is (4m - 1) * f.
Shortest(m, e) ==
    LET below == IF m = TwoTo52 /\ e > -1074 THEN <<"1">> ELSE <<"2">>
        Scaled(a) == IF e >= 2 THEN TimesPow2(a, e - 2) ELSE TimesPow5(a, 2 - e)
        scale == IF e >= 2 THEN 0 ELSE 2 - e
        Between(x, lo, hi) == ShortestFrom(x, lo, hi, ~Odd(m), Len(x) - scale, 1)
        Around(m4) ==
            Between(Scaled(m4), Scaled(BigSub(m4, below)), Scaled(NumAdd(m4, <<"2">>)))
    IN  Around(Dbl(Dbl(m)))

\* float_repr_style 'short': the digits in positional notation, or with an
\* exponent when the decimal point is more than 16 places right or more than
\* 3 places left of the first digit.
ReprDigits(d, decpt) ==
    LET n == Len(d)
        x == IF decpt >= 1 THEN decpt - 1 ELSE 1 - decpt
    IN  IF decpt > 16 \/ decpt < -3
        THEN <<d[1]>> \o (IF n > 1 THEN <<".">> \o Tail(d) ELSE <<>>)
             \o <<"e", IF decpt >= 1 THEN "+" ELSE "-">>
             \o (IF x < 10 THEN <<"0">> ELSE <<>>) \o NatToStr(x)
        ELSE IF decpt <= 0 THEN <<"0", ".">> \o Zeros(-decpt) \o d
        ELSE IF decpt >= n THEN d \o Zeros(decpt - n) \o <<".", "0">>
        ELSE SubSeq(d, 1, decpt) \o <<".">> \o SubSeq(d, decpt + 1, n)

\* repr of the double nearest to d * 10**e10.  A numeral of at most 15
\* significant digits in the range of the normal doubles is itself the
\* shortest text of its double (DBL_DIG = 15).
DecimalRepr(d, e10) ==
    LET sd == StripTrailingZeroChars(d)
        mag == Len(d) + e10
        Digits17(sh) == ReprDigits(sh.digits, sh.decpt)
        Repr(x) ==
            IF x.cls = "zero" THEN <<"0", ".", "0">>
            ELSE IF x.cls = "inf" THEN <<"i", "n", "f">>
            ELSE Digits17(Shortest(x.m, x.e))
    IN  IF d = <<"0">> THEN <<"0", ".", "0">>
        ELSE IF Len(sd) <= 15 /\ mag >= -300 /\ mag <= 300 THEN ReprDigits(sd, mag)
        ELSE Repr(ToDouble(d, e10))

\* repr(float(value)) for an unsigned text of the float pattern: digits, a
\* point, digits and an optional exponent, or .inf or .nan.
FloatRepr(value) ==
    LET ip == DigitRunLen(value, 1)
        fp == DigitRunLen(value, ip + 2)
        k == ip + 2 + fp
        xd == Canon(SubSeq(value, k + 2, Len(value)))
        xn == IF Len(xd) > 4 THEN 9999 ELSE ToNat(xd, 1, Len(xd))
        exp == IF k > Len(value) THEN 0
               ELSE IF value[k + 1] = "-" THEN -xn ELSE xn
        d == Canon(SubSeq(value, 1, ip) \o SubSeq(value, ip + 2, ip + 1 + fp))
    IN  IF value = <<".", "i", "n", "f">> THEN <<"i", "n", "f">>
        ELSE IF value = <<".", "n", "a", "n">> THEN <<"n", "a", "n">>
        ELSE DecimalRepr(d, exp - fp)

\* construct_yaml_float: the float of the text in lower case without
\* underscores, the sign applied to it; the value is kept as its repr.
ConstructFloat(s) ==
    LET Signed(text) ==
            Value("float", IF Negative(s) /\ text # <<"n", "a", "n">>
                           THEN <<"-">> \o text ELSE text)
    IN  Signed(FloatRepr(Unsigned(LowerStr(RemoveUnderscores(s)))))

\* construct_yaml_timestamp, the date form: datetime.date(year, month, day),
\* which raises ValueError for a date the calendar does not have.
DaysIn(year, month) ==
    IF month = 2
    THEN (IF year % 4 = 0 /\ (year % 100 # 0 \/ year % 400 = 0) THEN 29 ELSE 28)
    ELSE IF month \in {4, 6, 9, 11} THEN 30 ELSE 31
ConstructDate(s) ==
    LET year == ToNat(s, 1, 4)
        month == ToNat(s, 6, 2)
        day == ToNat(s, 9, 2)
    IN  IF year >= 1 /\ month \in 1..12 /\ day >= 1 /\ day <= DaysIn(year, month)
        THEN Value("date", s)
        ELSE LoadError

\* A scalar that begins with "!" is a tag with an empty scalar: "!" resolves
\* it as a plain one, !!null, !!str and !!binary construct None, '' and b'';
\* every other tag makes the load fail (no constructor, or none that takes
\* the empty scalar).
BinaryTexts ==
    { <<"!", "!", "b", "i", "n", "a", "r", "y">>,
      <<"!", "!", "b", "i", "n", "a", "r", "y", " ", "\"", "\"">> }
ConstructTagged(s) ==
    IF s \in { <<"!">>, <<"!", "!", "n", "u", "l", "l">> } THEN PyNone
    ELSE IF s = <<"!", "!", "s", "t", "r">> THEN StrValue(<<>>)
    ELSE IF s \in BinaryTexts THEN Value("bytes", <<"b", "'", "'">>)
    ELSE LoadError

\* What SafeLoader makes of the scalar of a  key: scalar  line that is not
\* quoted.  A lone "-" is a block sequence entry there: the scanner raises.
ResolvePlain(s) ==
    LET tag == ResolveTag(s)
    IN  IF s = <<"-">> THEN LoadError
        ELSE IF StartsWith(s, 1, <<"!">>) THEN ConstructTagged(s)
        ELSE IF tag = "bool" THEN (IF s \in TrueTexts THEN PyTrue ELSE PyFalse)
        ELSE IF tag = "float" THEN ConstructFloat(s)
        ELSE IF tag = "int" THEN ConstructInt(s)
        ELSE IF tag = "null" THEN PyNone
        ELSE IF tag = "timestamp" THEN ConstructDate(s)
        ELSE StrValue(s)

\* The scalar of one pair line as loaded.
LoadScalar(line) == IF line.q THEN StrValue(line.text) ELSE ResolvePlain(line.text)

\* A mapping is a sequence of [key, val] entries with distinct keys, in
\* insertion order (a Python dict).
HasKey(m, key) == \E i \in 1..Len(m) : m[i].key = key
Get(m, key) == m[CHOOSE i \in 1..Len(m) : m[i].key = key].val
\* m[key] = val on a dict
SetItem(m, key, val) ==
    IF HasKey(m, key)
    THEN [i \in 1..Len(m) |-> IF m[i].key = key THEN [key |-> key, val |-> val]
                                               ELSE m[i]]
    ELSE Append(m, [key |-> key, val |-> val])

SelectLines(lines, kinds) == SelectSeq(lines, LAMBDA l : l.k \in kinds)

\* str() of a list of n items 'x'
ListRepr(n) ==
    <<"[">> \o [i \in 1..(5 * n - 2) |-> <<"'", "x", "'", ",", " ">>[((i - 1) % 5) + 1]]
        \o <<"]">>
ListValue(n) == Value("list", ListRepr(n))
ListLen(v) == Cardinality({ i \in 1..Len(v.s) : v.s[i] = "x" })

\* The plain scalars after which a block sequence may follow as the value:
\* none, or only a tag that a sequence may bear.
SequenceOpeners == { <<>>, <<"!">>, <<"!", "!", "s", "e", "q">> }

\* The number of item lines that follow line i of the content.
ItemsAfter(content, i) ==
    RunLen([j \in 1..Len(content) |-> content[j].k], i + 1, {"item"})

\* The value of the pair in line i of the content: its scalar, or the list
\* of the items that follow it.
LoadEntry(content, i) ==
    IF ItemsAfter(content, i) = 0 THEN LoadScalar(content[i])
    ELSE IF ~content[i].q /\ content[i].text \in SequenceOpeners
    THEN ListValue(ItemsAfter(content, i))
    ELSE LoadError

\* construct_mapping: the dict of the pairs of the content.  A key stands
\* where its first pair stands and has the value of its last pair.
ConstructMapping(content) ==
    LET n == Len(content)
        SameKey(i, j) == content[j].k = "pair" /\ content[j].key = content[i].key
        first == SelectSeq([i \in 1..n |-> i],
                     LAMBDA i : content[i].k = "pair"
                                /\ \A j \in 1..(i - 1) : ~SameKey(i, j))
        last(i) == CHOOSE j \in i..n : SameKey(i, j) /\ \A h \in (j + 1)..n : ~SameKey(i, h)
        entry(i) == [key |-> content[i].key, val |-> LoadEntry(content, last(i))]
    IN  SubSeq([k \in 1..Len(first) |-> entry(first[k])], 1, Len(first))

\* yaml.safe_load(f): kind "dict" with the mapping, "other" for a document
\* that is no mapping (None for an empty one, a list), "error" when it raises.
yaml_safe_load(lines) ==
    LET content == SelectLines(lines, {"pair", "item", "bad"})
        items == SelectLines(lines, {"item"})
    IN  IF SelectLines(lines, {"bad"}) # <<>> THEN [kind |-> "error", map |-> <<>>]
        ELSE IF content = <<>> THEN [kind |-> "other", map |-> <<>>]
        ELSE IF items = content THEN [kind |-> "other", map |-> <<>>]
        ELSE IF content[1].k = "item" THEN [kind |-> "error", map |-> <<>>]
        ELSE IF \E i \in 1..Len(content) :
                    content[i].k = "pair" /\ LoadEntry(content, i) = LoadError
        THEN [kind |-> "error", map |-> <<>>]
        ELSE [kind |-> "dict", map |-> ConstructMapping(content)]

\* analyze_scalar: a text the emitter may write plain in a block mapping
\* (the empty text is one: it is its tag, null, that puts it in quotes).
AllowBlockPlain(s) ==
    /\ ~StartsWith(s, 1, <<"-", "-", "-">>)
    /\ ~StartsWith(s, 1, <<".", ".", ".">>)
    /\ ~StartsWith(s, 1, <<"!">>)
    /\ s # <<"-">>

\* The emitter writes a str in quotes when its plain form would not resolve
\* to a str, or may not be written plain.
NeedsQuotes(s) == ResolveTag(s) # "str" \/ ~AllowBlockPlain(s)

\* represent_float: repr(data) with ".0" put before an exponent that follows
\* no decimal point; .inf, -.inf and .nan
RepresentFloat(s) ==
    LET e == { i \in 1..Len(s) : s[i] = "e" }
        k == CHOOSE i \in e : TRUE
    IN  IF s = <<"n", "a", "n">> THEN <<".", "n", "a", "n">>
        ELSE IF s = <<"i", "n", "f">> THEN <<".", "i", "n", "f">>
        ELSE IF s = <<"-", "i", "n", "f">> THEN <<"-", ".", "i", "n", "f">>
        ELSE IF e # {} /\ \A i \in 1..Len(s) : s[i] # "."
        THEN SubSeq(s, 1, k - 1) \o <<".", "0">> \o SubSeq(s, k, Len(s))
        ELSE s

\* The text the representer gives a value.
Represent(v) ==
    IF v.t = "float" THEN RepresentFloat(v.s)
    ELSE IF v = PyNone THEN <<"n", "u", "l", "l">>
    ELSE IF v.t = "bool" THEN LowerStr(v.s)
    ELSE IF v.t = "bytes" THEN <<"!", "!", "b", "i", "n", "a", "r", "y", " ", "\"", "\"">>
    ELSE v.s

\* A representer that writes every scalar plain.
DumpScalarPlain(key, v) == Pair(key, Represent(v), FALSE)

DumpScalar(key, v) == Pair(key, Represent(v), v.t = "str" /\ NeedsQuotes(v.s))

\* The lines of one entry: a scalar on the line of its key, a list as items
\* under it.
DumpEntry(key, v) ==
    IF v.t = "list" THEN <<Pair(key, <<>>, FALSE)>> \o [j \in 1..ListLen(v) |-> Item]
    ELSE <<DumpScalar(key, v)>>

\* The lines lo..hi of a sequence of groups of lines, one after the other.
RECURSIVE Flatten(_, _, _)
Flatten(groups, lo, hi) ==
    LET mid == (lo + hi) \div 2
    IN  IF lo > hi THEN <<>>
        ELSE IF lo = hi THEN groups[lo]
        ELSE Flatten(groups, lo, mid) \o Flatten(groups, mid + 1, hi)

\* yaml.dump(config, f, default_flow_style=False, sort_keys=False)
yaml_dump(m) ==
    Flatten([i \in 1..Len(m) |-> DumpEntry(m[i].key, m[i].val)], 1, Len(m))
\* ------------------------------------------------- update_config_files

\* A file of the walked tree: its name, what the process may do with it
\* ("rw", "r" read-only, "" unreadable) and its text.
File(name, mode, lines) == [name |-> name, mode |-> mode, lines |-> lines]

\* str(value), as the f-string of line 26 formats config['image'].
PyStr(v) == v.s

\* The pages the registry holds for a repository name (none: every GET is a 404).
PagesFor(reg, repo) == IF repo \in DOMAIN reg THEN reg[repo] ELSE <<>>

\* What the body of the try block (lines 88-115) does with one config.yaml:
\* the file's text afterwards, the change of updated_count, whether an
\* exception left the block, the log lines, and the calls of get_latest_tag.
Outcome(lines, updated, raised, events, calls) ==
    [lines |-> lines, updated |-> updated, raised |-> raised,
     events |-> events, calls |-> calls]

\* config = {'version': latest_tag}: the other entries dropped
AssignVersionAlone(config, latest_tag) ==
    << [key |-> "version", val |-> StrValue(latest_tag)] >>

\* Line 106: config['version'] = latest_tag
AssignVersion(config, latest_tag) == SetItem(config, "version", StrValue(latest_tag))

\* Lines 100-115, given what get_latest_tag gave.
ApplyTag(f, config, r) ==
    LET repo == PyStr(Get(config, "image"))
        latest_tag == r.value
        current_version == IF HasKey(config, "version")
                           THEN Get(config, "version")
                           ELSE PyNone
        \* line 97, then the records of the call of line 98
        logged == <<"info:processing">> \o r.events
    IN  IF r.kind = "raise"
        THEN Outcome(f.lines, 0, TRUE, logged, <<repo>>)
        ELSE IF latest_tag = None
        THEN Outcome(f.lines, 0, FALSE,
                     logged \o <<"warning:could_not_determine">>, <<repo>>)
        ELSE IF current_version = StrValue(latest_tag)
        THEN Outcome(f.lines, 0, FALSE,
                     logged \o <<"info:latest", "info:already">>, <<repo>>)
        ELSE IF f.mode # "rw"
        THEN \* open(file_path, 'w') raises PermissionError
             Outcome(f.lines, 0, TRUE,
                     logged \o <<"info:latest", "info:updating">>, <<repo>>)
        ELSE Outcome(yaml_dump(AssignVersion(config, latest_tag)), 1, FALSE,
                     logged \o <<"info:latest", "info:updating">>, <<repo>>)

\* Lines 88-115 with config.get('image') in place of the test of line 96.
TryBodyNoImageTest(f, reg, build) ==
    LET Update(config) ==
            ApplyTag(f, config,
                     get_latest_tag(PagesFor(reg, PyStr(Get(config, "image"))), build))
        Loaded(loaded) ==
            IF f.mode = "" \/ loaded.kind = "error"
            THEN Outcome(f.lines, 0, TRUE, <<>>, <<>>)
            ELSE IF loaded.kind # "dict"
            THEN Outcome(f.lines, 0, FALSE, <<"warning:not_dict">>, <<>>)
            ELSE IF HasKey(loaded.map, "image") THEN Update(loaded.map)
            ELSE Update(Append(loaded.map, [key |-> "image", val |-> PyNone]))
    IN  Loaded(yaml_safe_load(f.lines))

\* Lines 88-115.
TryBody(f, reg, build) ==
    LET Update(config) ==
            ApplyTag(f, config,
                     get_latest_tag(PagesFor(reg, PyStr(Get(config, "image"))), build))
        Loaded(loaded) ==
            IF f.mode = "" \/ loaded.kind = "error"
            THEN Outcome(f.lines, 0, TRUE, <<>>, <<>>)
            ELSE IF loaded.kind # "dict"
            THEN Outcome(f.lines, 0, FALSE, <<"warning:not_dict">>, <<>>)
            ELSE IF ~HasKey(loaded.map, "image")
            THEN Outcome(f.lines, 0, FALSE, <<>>, <<>>)
            ELSE Update(loaded.map)
    IN  Loaded(yaml_safe_load(f.lines))

\* No handler: an exception of the try block leaves update_config_files.
NoExceptHandler(o) ==
    [lines |-> o.lines, updated |-> o.updated, error |-> 0, events |-> o.events,
     calls |-> o.calls, goes_on |-> ~o.raised]

\* Lines 116-118: `except Exception` turns an exception of the try block into
\* an error line and error_count += 1; the walk goes on either way.
ExceptHandler(o) ==
    [lines |-> o.lines, updated |-> o.updated,
     error |-> IF o.raised THEN 1 ELSE 0,
     events |-> IF o.raised THEN Append(o.events, "error:processing") ELSE o.events,
     calls |-> o.calls, goes_on |-> TRUE]

\* Lines 84-118 for one walked file.
process_file(f, reg, build) ==
    IF f.name # "config.yaml"
    THEN ExceptHandler(Outcome(f.lines, 0, FALSE, <<>>, <<>>))
    ELSE ExceptHandler(TryBody(f, reg, build))

\* ------------------------------------------------------------ inputs

T_9 == <<"9">>
T_10 == <<"1", "0">>
T_01 == <<"0", "1">>
T_0_9 == <<"0", ".", "9">>
T_1_0 == <<"1", ".", "0">>
T_1_0_0 == <<"1", ".", "0", ".", "0">>
T_1_1 == <<"1", ".", "1">>
T_1_2_0 == <<"1", ".", "2", ".", "0">>
T_2_0_0 == <<"2", ".", "0", ".", "0">>
T_v1 == <<"v", "1">>
T_1a == <<"1", "a">>
T_1_a == <<"1", ".", "a">>
T_1a1 == <<"1", "a", "1">>
T_1dot == <<"1", ".">>
T_1b1 == <<"1", "b", "1">>
T_1rc1 == <<"1", "r", "c", "1">>
T_1_post1 == <<"1", ".", "p", "o", "s", "t", "1">>
T_1_dev1 == <<"1", ".", "d", "e", "v", "1">>
T_x9 == <<"x", "9">>
T_x10 == <<"x", "1", "0">>
T_latest == <<"l", "a", "t", "e", "s", "t">>
T_stable == <<"s", "t", "a", "b", "l", "e">>

\* Tag names a registry page may list.
TagUniverse ==
    { T_9, T_10, T_01, T_1_0, T_1_0_0, T_1_1, T_v1, T_1a, T_1_a, T_1a1, T_1dot,
      T_1b1, T_1rc1, T_1_post1, T_1_dev1, T_x9, T_x10, T_latest }

SeqsUpTo(S, n) == UNION { [1..k -> S] : k \in 0..n }

RepoXY == <<"x", "/", "y">>
RepoAB == <<"a", "/", "b">>

\* Lists of names for the pages of a paginated repository: five and four
\* names with a digit, a sparse page, a page with none, an empty page.
PageNames ==
    { <<T_1_0_0, T_1_1, T_1_2_0, T_2_0_0, T_x9>>,
      <<T_1_0_0, T_latest, T_1_1, T_1_2_0, T_x10>>,
      <<T_latest, T_1_0>>,
      <<T_latest, T_stable>>,
      <<>> }

FailPages ==
    { FailPage(st) : st \in {"network_error", "http_error", "not_json", "bad_shape"} }

\* The page sequences of a repository: every page but the last gives a next
\* pointer; the last gives none, or the request for it fails.
LastPages == { OkPage(n, FALSE) : n \in PageNames } \cup FailPages
InnerPages == { OkPage(n, TRUE) : n \in PageNames }
PageSeqs ==
    UNION { { ps \o <<lp>> : ps \in [1..k -> InnerPages], lp \in LastPages }
            : k \in 0..(MaxPages - 1) }

\* One-page repositories listing any names of TagUniverse.
FreePages == { <<OkPage(n, FALSE)>> : n \in SeqsUpTo(TagUniverse, MaxTags) }

\* Registries for the files' images: the pages held for x/y and for a/b.
Registry(xy, ab) == (RepoXY :> xy) @@ (RepoAB :> ab)
Registries ==
    { Registry(<<OkPage(<<T_latest, T_1_0_0, T_1_2_0>>, FALSE)>>,
               <<OkPage(<<T_x9, T_x10>>, FALSE)>>),
      Registry(<<OkPage(<<T_latest, T_0_9>>, TRUE), OkPage(<<T_1_0>>, FALSE)>>,
               <<OkPage(<<T_latest>>, TRUE), FailPage("bad_shape")>>),
      Registry(<<FailPage("network_error")>>,
               <<OkPage(<<T_latest, T_stable>>, FALSE)>>),
      Registry(<<OkPage(<<T_latest, T_1_0_0>>, TRUE), FailPage("not_json")>>,
               <<OkPage(<<T_x9, T_x10>>, TRUE), FailPage("http_error")>>) }

ImageXY == Pair("image", RepoXY, FALSE)
ImageAB == Pair("image", RepoAB, FALSE)
NameLine == Pair("name", <<"x">>, FALSE)

FileTexts ==
    { <<ImageXY, Pair("version", T_1_0_0, TRUE)>>,
      <<Comment, NameLine, Pair("version", T_1_0, FALSE), ImageXY,
        Pair("port", <<"0", "1", "0">>, FALSE)>>,
      <<NameLine, ImageAB>>,
      <<ImageAB, Pair("version", T_x9, FALSE)>>,
      <<Pair("version", T_1_0_0, TRUE), ImageAB, Pair("version", T_x9, FALSE)>>,
      <<Comment, NameLine, Pair("version", T_1_0_0, TRUE)>>,
      <<ImageXY, Pair("rate", <<"0", ".", "0", "0", "0", "0", "1">>, FALSE),
        Pair("ports", <<>>, FALSE), Item, Item>>,
      <<Comment, Item, Item>>,
      <<ImageXY, Bad>> }

\* The files a walk may meet.
FileUniverse ==
    { File("config.yaml", "rw", t) : t \in FileTexts }
    \cup { File("config.yaml", "r", <<ImageXY, Pair("version", T_1_0_0, TRUE)>>),
           File("config.yaml", "", <<ImageXY, Pair("version", T_1_0_0, TRUE)>>),
           File("build.yaml", "rw", <<ImageXY, Pair("version", T_1_0_0, TRUE)>>) }

\* ------------------------------------------------------------- state

VARIABLES
    build,              \* the installed libraries, an element of Builds
    verbose,            \* args.verbose: -v was given, the logger is at DEBUG (line 144)
    registry,           \* repository name -> the pages the registry serves for it
    \* update_config_files
    fs,                 \* the walked files, in walk order
    fs_at_start,        \* the files as the current run found them
    walk_pos,           \* index in fs of the next file of the walk
    run,                \* 1: first run; 2: the run repeated on the same tree
    pc,                 \* "walk" | "returned" | "completed" | "crashed" | "idle"
    updated_count,
    error_count,
    returned,           \* the (updated_count, error_count) each finished run returned
    log,                \* the records logged: [file, msg], file 0 outside a walk
    calls,              \* the repository names get_latest_tag was called with
    \* get_latest_tag, stepwise
    rpc,                \* "loop" | "done" | "idle"
    repo_name,
    tags_url,
    current_page,
    max_pages,
    all_tags,
    result              \* what the call gave: Return(value) or Raise

updater_vars ==
    <<fs, fs_at_start, walk_pos, run, pc, updated_count, error_count, returned,
      log, calls>>
resolver_vars == <<rpc, repo_name, tags_url, current_page, max_pages, all_tags, result>>
vars == <<build, verbose, registry, updater_vars, resolver_vars>>

NoResult == [kind |-> "", value |-> None]

ResolverIdle ==
    /\ rpc = "idle"
    /\ repo_name = <<>>
    /\ tags_url = 0
    /\ current_page = 0
    /\ max_pages = 0
    /\ all_tags = <<>>
    /\ result = NoResult

UpdaterIdle ==
    /\ fs = <<>>
    /\ fs_at_start = <<>>
    /\ walk_pos = 1
    /\ run = 1
    /\ pc = "idle"
    /\ updated_count = 0
    /\ error_count = 0
    /\ returned = <<>>
    /\ log = <<>>
    /\ calls = <<>>

\* ------------------------------- __main__ and update_config_files

\* The program started (lines 122-146, the record of line 146 logged) and
\* update_config_files entered (lines 80-81).  -v is given on the walks of the trees that have fewer
\* than MaxFiles files.
Init ==
    /\ build \in Builds
    /\ registry \in Registries
    /\ fs \in SeqsUpTo(FileUniverse, MaxFiles)
    /\ verbose \in (IF Len(fs) < MaxFiles THEN BOOLEAN ELSE {FALSE})
    /\ fs_at_start = fs
    /\ walk_pos = 1
    /\ run = 1
    /\ pc = "walk"
    /\ updated_count = 0
    /\ error_count = 0
    /\ returned = <<>>
    /\ log = <<[file |-> 0, msg |-> "info:starting"]>>
    /\ calls = <<>>
    /\ ResolverIdle

LogLines(i, events) == [j \in 1..Len(events) |-> [file |-> i, msg |-> events[j]]]

\* One turn of the loop of lines 84-118: the next file of the walk.  With the
\* logger at DEBUG the record of line 51 is logged as well: it follows the
\* record of line 97 when the loop of get_latest_tag ends by its condition.
\* An exception that leaves update_config_files is logged at line 153.
ProcessFile ==
    LET Records(o, line51) ==
            IF verbose /\ line51
            THEN <<o.events[1], "debug:found_tags">> \o Tail(o.events)
            ELSE o.events
        Walked(o) ==
            /\ fs' = [fs EXCEPT ![walk_pos].lines = o.lines]
            /\ updated_count' = updated_count + o.updated
            /\ error_count' = error_count + o.error
            /\ calls' = calls \o o.calls
            /\ IF o.goes_on
               THEN /\ walk_pos' = walk_pos + 1
                    /\ pc' = pc
                    /\ log' = log \o LogLines(walk_pos,
                                 Records(o, (o.calls # <<>>) /\
                                            RunLoop(LoopStart,
                                                    PagesFor(registry, o.calls[1]),
                                                    build).exit = ""))
               ELSE /\ walk_pos' = walk_pos
                    /\ pc' = "crashed"
                    /\ log' = log \o LogLines(walk_pos, o.events)
                                  \o <<[file |-> 0, msg |-> "error:unexpected"]>>
    IN  /\ pc = "walk"
        /\ walk_pos <= Len(fs)
        /\ Walked(process_file(fs[walk_pos], registry, build))
        /\ UNCHANGED <<build, verbose, registry, fs_at_start, run, returned,
                       resolver_vars>>

\* Line 120, after the last file.
ReturnCounts ==
    /\ pc = "walk"
    /\ walk_pos > Len(fs)
    /\ pc' = "returned"
    /\ returned' = Append(returned, <<updated_count, error_count>>)
    /\ UNCHANGED <<build, verbose, registry, fs, fs_at_start, walk_pos, run,
                   updated_count, error_count, log, calls, resolver_vars>>

\* Line 148: the entry block logs the counts returned.
LogCompleted ==
    /\ pc = "returned"
    /\ pc' = "completed"
    /\ log' = Append(log, [file |-> 0, msg |-> "info:completed"])
    /\ UNCHANGED <<build, verbose, registry, fs, fs_at_start, walk_pos, run,
                   updated_count, error_count, returned, calls, resolver_vars>>

\* The program run once more with the same arguments, on the tree as the
\* first run left it and against the same registry (lines 122-146, 80-81).
RunAgain ==
    /\ pc = "completed"
    /\ run = 1
    /\ run' = 2
    /\ pc' = "walk"
    /\ fs_at_start' = fs
    /\ walk_pos' = 1
    /\ updated_count' = 0
    /\ error_count' = 0
    /\ log' = Append(log, [file |-> 0, msg |-> "info:starting"])
    /\ UNCHANGED <<build, verbose, registry, fs, returned, calls, resolver_vars>>

Next == ProcessFile \/ ReturnCounts \/ LogCompleted \/ RunAgain

Spec == Init /\ [][Next]_vars

\* ----------------------------------------------------- get_latest_tag

\* A call of get_latest_tag(repo_name), before its loop.  The logger is at
\* DEBUG in calls for the paginated repositories.
InitResolver ==
    /\ build \in Builds
    /\ registry \in { (RepoXY :> ps) : ps \in PageSeqs \cup FreePages }
    /\ verbose \in (IF registry[RepoXY] \in PageSeqs THEN BOOLEAN ELSE {FALSE})
    /\ rpc = "loop"
    /\ repo_name = RepoXY
    /\ tags_url = LoopStart.tags_url
    /\ current_page = LoopStart.current_page
    /\ max_pages = LoopStart.max_pages
    /\ all_tags = LoopStart.all_tags
    /\ result = NoResult
    /\ UpdaterIdle

\* The value or exception of a finished call.
Result(r) == [kind |-> r.kind, value |-> r.value]

Locals ==
    [tags_url |-> tags_url, current_page |-> current_page, max_pages |-> max_pages,
     all_tags |-> all_tags, exit |-> ""]

\* One iteration of the while loop (lines 30-49).
FetchPage ==
    LET Ended(r) == result' = Result(r) /\ log' = log \o LogLines(0, r.events)
        Fetched(l) ==
            /\ tags_url' = l.tags_url
            /\ current_page' = l.current_page
            /\ max_pages' = l.max_pages
            /\ all_tags' = l.all_tags
            /\ IF l.exit = ""
               THEN rpc' = "loop" /\ result' = result /\ log' = log
               ELSE rpc' = "done" /\ Ended(AfterLoop(l, build))
    IN  /\ rpc = "loop"
        /\ LoopCond(Locals)
        /\ Fetched(LoopBody(Locals, PageOf(PagesFor(registry, repo_name), tags_url), build))
        /\ UNCHANGED <<build, verbose, registry, repo_name, fs, fs_at_start, walk_pos,
                       run, pc, updated_count, error_count, returned, calls>>

\* After the loop: lines 51-74.  The record of line 51 is logged when the
\* logger is at DEBUG.
SortTags ==
    LET Ended(r) ==
            /\ result' = Result(r)
            /\ log' = log \o LogLines(0, IF verbose
                                          THEN <<"debug:found_tags">> \o r.events
                                          ELSE r.events)
    IN  /\ rpc = "loop"
        /\ ~LoopCond(Locals)
        /\ rpc' = "done"
        /\ Ended(AfterLoop(Locals, build))
        /\ UNCHANGED <<build, verbose, registry, repo_name, tags_url, current_page,
                       max_pages, all_tags, fs, fs_at_start, walk_pos, run, pc,
                       updated_count, error_count, returned, calls>>

NextResolver == FetchPage \/ SortTags

SpecResolver == InitResolver /\ [][NextResolver]_vars

\* ------------------------------------------- properties of get_latest_tag

Range(seq) == { seq[i] : i \in 1..Len(seq) }

\* The pages of the call's repository, and the names on those fetched so far.
RepoPages == PagesFor(registry, repo_name)
FetchedNames == UNION { Range(RepoPages[n].names) : n \in 1..current_page }
DigitNames == { t \in FetchedNames : HasDigit(t) }
VersionNames == { t \in DigitNames : ParseVersion(t).valid }

\* The call is over and its loop ended by its condition, every request answered.
LoopCompleted == rpc = "done" /\ ~LoopCond(Locals)
\* The call is over because a request failed.
RequestFailed == rpc = "done" /\ LoopCond(Locals)

\* The reorderings of a list: all its permutations when it is short, and for a
\* longer one the exchanges of two entries (which generate the permutations).
Reorderings(tags) ==
    LET n == Len(tags)
        idx == 1..n
    IN  IF n <= MaxTags + 1
        THEN { [i \in idx |-> tags[f[i]]] :
                 f \in { g \in [idx -> idx] : \A a, b \in idx : a # b => g[a] # g[b] } }
        ELSE { [i \in idx |-> IF i = a THEN tags[b] ELSE IF i = b THEN tags[a] ELSE tags[i]] :
                 a \in idx, b \in idx }

IsMaxVersion(t) ==
    /\ t \in VersionNames
    /\ \A u \in VersionNames : ~VersionLess(ParseVersion(t), ParseVersion(u))

\* C2 as stated: when the fetched tags include one that has a digit and parses
\* as a version, get_latest_tag returns a tag whose parsed version is the
\* greatest, and every reordering of the tags gives the same tag.
C2_LatestIsMaxVersion ==
    (LoopCompleted /\ VersionNames # {}) =>
        /\ result.kind = "return"
        /\ IsMaxVersion(result.value)
        /\ \A r \in Reorderings(all_tags) :
              SelectLatest(r, build.LegacyVersion).value = result.value

\* C2 where packaging.version still has LegacyVersion (packaging < 22): the
\* statement of C2 holds there.
C2_WithLegacyVersion == build.LegacyVersion => C2_LatestIsMaxVersion

\* C4 as stated: a request that fails at any page makes get_latest_tag return
\* None; no exception leaves the function.
C4_FailureReturnsNone ==
    RequestFailed => result = Return(None)

\* C4 for the failures that are a requests.RequestException (network error,
\* HTTP status, body that is not JSON): these do give None.
C4_RequestExceptionReturnsNone ==
    (RequestFailed /\ PageOf(RepoPages, tags_url).status \in RequestExceptions(build))
        => result = Return(None)

IsMaxString(t, S) == t \in S /\ \A u \in S : ~StrLess(t, u)

\* C8, amended: when no fetched tag parses as a version and some tag has a
\* digit, get_latest_tag returns the greatest tag with a digit in
\* lexicographic string order; for ["x9", "x10"] that is "x9".
C8_FallbackIsMaxString ==
    (LoopCompleted /\ VersionNames = {} /\ DigitNames # {}) =>
        /\ result.kind = "return"
        /\ IsMaxString(result.value, DigitNames)
        /\ (all_tags = <<T_x9, T_x10>> => result.value = T_x9)

C8_Witness ==
    /\ LoopCompleted
    /\ VersionNames = {}
    /\ Cardinality(DigitNames) >= 2
    /\ T_latest \in FetchedNames
    /\ result = Return(T_x9)

\* C8 as stated, with its example: the list ["9", "10"] is said to be one in
\* which no entry parses, for which "9" is returned.
C8_Original ==
    /\ C8_FallbackIsMaxString
    /\ (LoopCompleted /\ all_tags = <<T_9, T_10>>) =>
          (VersionNames = {} /\ result = Return(T_9))

\* C9: when no fetched tag has a digit (also when no tag was listed at all),
\* get_latest_tag returns None.
C9_NoDigitTagsGiveNone ==
    (LoopCompleted /\ DigitNames = {}) => result = Return(None)

C9_Witness ==
    /\ LoopCompleted
    /\ DigitNames = {}
    /\ Cardinality(FetchedNames) >= 2
    /\ result = Return(None)

FirstPageFetched == (rpc = "loop" /\ current_page = 0) => LoopCond(Locals)
PageBudget == rpc # "idle" => max_pages \in {current_page, current_page + 1}
StopRule ==
    (rpc = "loop" /\ current_page' = current_page + 1) =>
        /\ all_tags' = all_tags \o SelectSeq(RepoPages[tags_url].names, HasDigit)
        /\ (rpc' = "loop" /\ LoopCond(Locals)')
              <=> (RepoPages[tags_url].next /\ Len(all_tags') < 5)

\* C10: the first page is always fetched; after a page fetched with success a
\* further page is fetched exactly when that page gave a next pointer and
\* fewer than 5 tags with a digit are held; max_pages is current_page or
\* current_page + 1 throughout.
C10_PaginationStopRule ==
    /\ []FirstPageFetched
    /\ []PageBudget
    /\ [][StopRule]_vars

C10_Witness ==
    /\ rpc = "done"
    /\ current_page = 1
    /\ RepoPages[1].next
    /\ Len(RepoPages) = 2
    /\ Len(all_tags) = 5

\* -------------------------------------- properties of update_config_files

\* The file the walk is at, when the next step processes one.
AtFile == pc = "walk" /\ walk_pos <= Len(fs)
Current == fs[walk_pos]
OtherFilesKept == \A j \in 1..Len(fs) : j # walk_pos => fs'[j] = fs[j]

\* f is a config.yaml that loads as a mapping.
LoadsAsMapping(f) ==
    f.name = "config.yaml" /\ f.mode # "" /\ yaml_safe_load(f.lines).kind = "dict"
Mapping(f) == yaml_safe_load(f.lines).map
HasImage(f) == LoadsAsMapping(f) /\ HasKey(Mapping(f), "image")
ImageOf(f) == PyStr(Get(Mapping(f), "image"))

\* What the Tag Resolver gives for f's image.
Resolved(f) == get_latest_tag(PagesFor(registry, ImageOf(f)), build)
\* A request of the resolution of f's image fails.
TransportFailure(f) ==
    HasImage(f) /\ RunLoop(LoopStart, PagesFor(registry, ImageOf(f)), build).exit # ""

Keys(m) == [i \in 1..Len(m) |-> m[i].key]
ValueAt(m, key) == m[CHOOSE i \in 1..Len(m) : m[i].key = key].val

\* The resolver returns for f a tag that differs from f's version.
NewTagFor(f) ==
    /\ HasImage(f)
    /\ LET r == Resolved(f)
           m == Mapping(f)
       IN  /\ r.kind = "return"
           /\ r.value # None
           /\ HasKey(m, "version") => Get(m, "version") # StrValue(r.value)

\* The text `after` loads as the mapping of `before` with version set to tag
\* and every other key and value as before, the keys in their order.
RewrittenWith(before, after, tag) ==
    LET old == Mapping(before)
        new == yaml_safe_load(after.lines)
    IN  /\ new.kind = "dict"
        /\ Keys(new.map) = IF "version" \in Range(Keys(old)) THEN Keys(old)
                           ELSE Append(Keys(old), "version")
        /\ ValueAt(new.map, "version") = StrValue(tag)
        /\ \A i \in 1..Len(old) :
              old[i].key # "version" => new.map[i] = old[i]

C1_Step ==
    (AtFile /\ NewTagFor(Current)) =>
        /\ OtherFilesKept
        /\ IF Current.mode = "rw"
           THEN /\ RewrittenWith(Current, fs'[walk_pos], Resolved(Current).value)
                /\ updated_count' = updated_count + 1
                /\ error_count' = error_count
           ELSE /\ fs'[walk_pos] = Current
                /\ updated_count' = updated_count
                /\ error_count' = error_count + 1

\* C1: for a config.yaml that loads as a mapping with an image key, when the
\* resolver returns a tag T that differs from its version (absent counts as
\* different), update_config_files writes the file (lines 106-111): the file
\* is rewritten so that version is T and every other top-level key and value
\* is as loaded, the keys in their order, updated_count grows by exactly 1
\* and error_count stays, and no other file changes.  Nothing but the write
\* raising stands in the way: a file that open(file_path, 'w') refuses is
\* left as it was, is not counted as updated, and is the one processing
\* error of C6.
C1_UpdateSetsVersion == [][C1_Step]_vars

C1_Witness ==
    /\ run = 1
    /\ walk_pos = 2
    /\ updated_count = 1
    /\ Len(Mapping(fs_at_start[1])) >= 3
    /\ NewTagFor(fs_at_start[1])
    /\ fs[1] # fs_at_start[1]
    /\ RewrittenWith(fs_at_start[1], fs[1], T_1_0)

\* C3: a second run on the tree the first run left, against the same
\* registry, returns updated_count = 0 and rewrites no file.
C3_SecondRunUpdatesNothing ==
    (run = 2 /\ pc = "returned") =>
        /\ returned[2][1] = 0
        /\ fs = fs_at_start

C3_Witness ==
    /\ run = 2
    /\ pc = "returned"
    /\ returned[1][1] = 2
    /\ returned[2][1] = 0

C5_Step ==
    (AtFile /\ TransportFailure(Current)) =>
        /\ fs' = fs
        /\ updated_count' = updated_count
        /\ error_count' = error_count

\* C5 as stated: a file whose image makes a request of the resolver fail is
\* left as it is, and neither counter changes for it.
C5_TransportFailureIsNoError == [][C5_Step]_vars

C5_CaughtStep ==
    (AtFile /\ TransportFailure(Current) /\ Resolved(Current).kind = "return") =>
        /\ fs' = fs
        /\ updated_count' = updated_count
        /\ error_count' = error_count

\* C5 for the failures line 47 catches: there the statement holds.
C5_CaughtFailureIsNoError == [][C5_CaughtStep]_vars

\* Processing f raises: the file cannot be read or parsed, the resolver
\* raises, or the file is to be rewritten and cannot be opened for writing.
Raises(f) ==
    /\ f.name = "config.yaml"
    /\ \/ f.mode = ""
       \/ yaml_safe_load(f.lines).kind = "error"
       \/ HasImage(f) /\ (Resolved(f).kind = "raise" \/ (f.mode # "rw" /\ NewTagFor(f)))

C6_Step ==
    (AtFile /\ Raises(Current)) =>
        /\ error_count' = error_count + 1
        /\ updated_count' = updated_count
        /\ fs' = fs
        /\ pc' = "walk"
        /\ walk_pos' = walk_pos + 1
C6_Returned ==
    /\ pc # "crashed"
    /\ pc = "returned" =>
          /\ walk_pos = Len(fs) + 1
          /\ returned[run] = <<updated_count, error_count>>
          /\ error_count = Cardinality({ i \in 1..Len(fs) : Raises(fs_at_start[i]) })

\* C6: an exception while one config.yaml is processed adds exactly 1 to
\* error_count and the walk goes on to the next file; the function returns
\* the counts after the last file, the errors being the files that raised.
C6_FailureIsolation == [][C6_Step]_vars /\ []C6_Returned

C6_Witness ==
    /\ run = 1
    /\ pc = "returned"
    /\ Len(fs) = 2
    /\ Raises(fs_at_start[1])
    /\ HasImage(fs_at_start[1])
    /\ fs[2] # fs_at_start[2]
    /\ returned[1] = <<1, 1>>

C7_Step ==
    (AtFile /\ LoadsAsMapping(Current) /\ ~HasImage(Current)) =>
        /\ fs' = fs
        /\ calls' = calls
        /\ updated_count' = updated_count
        /\ error_count' = error_count

\* C7: a config.yaml whose mapping has no image key is left as it is, the
\* resolver is not called for it, and neither counter changes for it.
C7_NoImageNoWrite == [][C7_Step]_vars

C7_Witness ==
    /\ run = 2
    /\ pc = "returned"
    /\ Len(fs) = 2
    /\ LoadsAsMapping(fs_at_start[1])
    /\ ~HasImage(fs_at_start[1])
    /\ fs[1].mode = "rw"
    /\ returned[1][1] = 1

====
